---- MODULE Spec2Model ----
(***************************************************************************)
(* Verification model of the document-ingestion pipeline:                  *)
(*   cloud_function/main.py            process_document, parse_gcs_uri     *)
(*   cloud_function/config.py          environment configuration           *)
(*   cloud_function/text_processing.py text extraction and its fallbacks   *)
(*   cloud_function/chunking.py        the four chunking strategies        *)
(*   cloud_function/embeddings.py      EmbeddingGenerator and batching     *)
(*   cloud_function/database.py        vector index and Firestore writes   *)
(*   streamlit_app/app.py              the upload UI                       *)
(*                                                                         *)
(* Strings with structure are modelled by their parts: a path is the       *)
(* sequence of its "/"-separated components, a document id the sequence of *)
(* its "."-separated components, a text a sequence of tokens (0 is a       *)
(* whitespace token), an error message the set of marker substrings it     *)
(* contains.  None is the empty sequence, the empty string the sequence    *)
(* holding one empty component.                                            *)
(***************************************************************************)
EXTENDS Integers, Sequences, FiniteSets, TLC

VARIABLES
    env,              \* os.environ: variable name -> value (unset names absent)
    bucket,           \* Cloud Storage bucket: object name -> file
    tmp,              \* the instance's /tmp: document id -> file
    vector_index,     \* Vector Search: sector name -> set of datapoints
    fs_documents,     \* Firestore: <<sector, document_id>> -> document record
    fs_chunks,        \* Firestore: set of committed chunk records
    uuid_counter,     \* number of uuid4() values drawn so far
    request,          \* per request: the HTTP request
    pc,               \* per request: position in process_document
    local,            \* per request: local variables of process_document
    response,         \* per request: the response returned
    calls,            \* per request: external steps started, in order
    ui,               \* the Streamlit session
    posts,            \* HTTP POSTs sent by the UI, in order
    probe             \* a function called on its own: arguments and result

vars == <<env, bucket, tmp, vector_index, fs_documents, fs_chunks, uuid_counter,
          request, pc, local, response, calls, ui, posts, probe>>

(***************************************************************************)
(* Bounds of the model.                                                    *)
(***************************************************************************)
MaxTextLen == 6          \* tokens in the longest stored document
MaxEmbedChunks == 10     \* longest chunk list given to generate_embeddings alone
MaxExtra == 1            \* list lengths tried around each multiple of the batch limit
MaxPresses == 2          \* presses of the Process button in one session

(***************************************************************************)
(* Generic helpers.                                                        *)
(***************************************************************************)
Min(a, b) == IF a < b THEN a ELSE b

Range(s) == {s[i] : i \in 1..Len(s)}

None == <<>>

EmptyStr == <<"">>

\* Python truthiness of an optional string: None and "" are falsy.
Falsy(s) == s = None \/ s = EmptyStr

\* A JSON array: its items between brackets.  Python cannot hash the list it becomes.
JsonArray(items) == <<"[">> \o items \o <<"]">>

Unhashable(v) == Len(v) >= 2 /\ v[1] = "[" /\ v[Len(v)] = "]"

\* dict.get(key, default) on a mapping modelled as a function.
Get(d, key, default) == IF key \in DOMAIN d THEN d[key] ELSE default

\* uuid4 with too little entropy: consecutive draws collide.
uuid4_Coarse(n) == ToString(n \div 2)

\* str(uuid.uuid4()): the n-th value drawn; distinct draws give distinct strings.
uuid4(n) == ToString(n)

(***************************************************************************)
(* config.py                                                               *)
(***************************************************************************)
\* The environments tried: nothing set, and every chunking default overridden.
Environments ==
    { <<>>,
      [FIXED_SIZE_CHUNK_SIZE |-> 2,
       SEMANTIC_MIN_CHUNK_SIZE |-> 1,
       SEMANTIC_MAX_CHUNK_SIZE |-> 3,
       SLIDING_WINDOW_CHUNK_SIZE |-> 3,
       SLIDING_WINDOW_OVERLAP |-> 1,
       HIERARCHICAL_LEVELS |-> <<"document", "sentence">>] }

PROJECT_ID == Get(env, "PROJECT_ID", "your-project")

REGION == Get(env, "REGION", "us-central1")

BUCKET_NAME == Get(env, "BUCKET_NAME", "your-document-bucket")

\* The SECTORS variable after splitting on commas or blanks: a list of names.
SECTORS ==
    Get(env, "SECTORS",
        <<"accounting", "hr", "legal", "engineering", "sales", "marketing">>)

\* projects/{PROJECT_ID}/locations/{REGION}/indexes/{sector}-index, by components;
\* the last component is kept as the pair (sector, "-index").
IndexId(sector) ==
    <<"projects", PROJECT_ID, "locations", REGION, "indexes", <<sector, "-index">> >>

SECTOR_INDEX_MAPPING == [s \in {<<SECTORS[i]>> : i \in 1..Len(SECTORS)} |-> IndexId(s[1])]

DEFAULT_PROCESSING_OPTIONS ==
    [fixed_size |-> [chunk_size |-> Get(env, "FIXED_SIZE_CHUNK_SIZE", 512)],
     semantic |-> [min_chunk_size |-> Get(env, "SEMANTIC_MIN_CHUNK_SIZE", 100),
                   max_chunk_size |-> Get(env, "SEMANTIC_MAX_CHUNK_SIZE", 1000)],
     sliding_window |-> [chunk_size |-> Get(env, "SLIDING_WINDOW_CHUNK_SIZE", 512),
                         overlap |-> Get(env, "SLIDING_WINDOW_OVERLAP", 128)],
     hierarchical |-> [levels |-> Get(env, "HIERARCHICAL_LEVELS",
                                      <<"document", "paragraph">>)]]

(***************************************************************************)
(* main.py: parse_gcs_uri                                                  *)
(***************************************************************************)
\* blob_path.startswith("gs://"): the components of "gs://x" are "gs:", "", "x".
StartsWithGs(path) == Len(path) >= 3 /\ path[1] = "gs:" /\ path[2] = ""

\* The object name with the first component always taken for a bucket.
ObjectName_DropFirst(blob_path) ==
    LET p == IF StartsWithGs(blob_path)
             THEN SubSeq(blob_path, 3, Len(blob_path))
             ELSE blob_path
    IN IF Len(p) >= 2 THEN Tail(p) ELSE p

\* The object name parse_gcs_uri derives from a blob path.
ObjectName(blob_path) ==
    LET p == IF StartsWithGs(blob_path)
             THEN SubSeq(blob_path, 3, Len(blob_path))
             ELSE blob_path
    IN IF Len(p) >= 2
       THEN IF <<p[1]>> \in DOMAIN SECTOR_INDEX_MAPPING THEN p ELSE Tail(p)
       ELSE p

\* parse_gcs_uri with the bucket of a gs:// URI taken from the URI.
parse_gcs_uri_PathBucket(blob_path) ==
    <<IF StartsWithGs(blob_path) THEN blob_path[3] ELSE BUCKET_NAME, ObjectName(blob_path)>>

parse_gcs_uri(blob_path) == <<BUCKET_NAME, ObjectName(blob_path)>>

(***************************************************************************)
(* text_processing.py                                                      *)
(*                                                                         *)
(* A file is [format, header, text]: format is what the file really is,    *)
(* header what its first bytes look like, text its tokens.  The result of  *)
(* an extraction is [raised, text, extractors]: extractors lists the       *)
(* format-specific extractors that were called, in order.                  *)
(***************************************************************************)
Lower(s) == CASE s = "PDF" -> "pdf" [] s = "TXT" -> "txt" [] s = "DOCX" -> "docx" [] OTHER -> s

\* os.path.splitext(file_path)[1].lower() of /tmp/{document_id}: the empty sequence
\* is "", <<e>> is "." followed by e.  Leading dots of the name start no extension.
FileExtension(document_id) ==
    IF Len(document_id) >= 2 /\ \E i \in 1..(Len(document_id) - 1) : document_id[i] # ""
    THEN <<Lower(document_id[Len(document_id)])>>
    ELSE <<>>

\* What open(file_path, "r") yields for a file that is not text.
BinaryAsText == <<9>>

detect_file_type(path) ==
    IF path \notin DOMAIN tmp THEN <<"pdf">>            \* open() raised
    ELSE IF tmp[path].header = "%PDF-" THEN <<"pdf">>
    ELSE IF tmp[path].header = "PK" THEN <<"docx">>
    ELSE <<"pdf">>

\* " ".join(text.split()): runs of whitespace tokens collapse to one, none is left
\* at either end.  The two regular expressions that follow find nothing to change.
RECURSIVE clean_text(_)
clean_text(text) ==
    IF text = <<>> THEN <<>>
    ELSE IF Head(text) = 0 THEN clean_text(Tail(text))
    ELSE IF Len(text) = 1 THEN text
    ELSE IF text[2] # 0 THEN <<Head(text)>> \o clean_text(Tail(text))
    ELSE LET rest == clean_text(Tail(text))
         IN IF rest = <<>> THEN <<Head(text)>> ELSE <<Head(text), 0>> \o rest

Returned(text, extractors) == [raised |-> FALSE, text |-> text, extractors |-> extractors]

Raised(extractors) == [raised |-> TRUE, text |-> <<>>, extractors |-> extractors]

\* PyPDF2 / pdfplumber read PDF files and raise on anything else.
extract_text_from_pdf(path) ==
    IF path \in DOMAIN tmp /\ tmp[path].format = "pdf"
    THEN Returned(tmp[path].text, <<"pdf">>)
    ELSE Raised(<<"pdf">>)

\* python-docx reads DOCX files and raises on anything else.
extract_text_from_docx(path) ==
    IF path \in DOMAIN tmp /\ tmp[path].format = "docx"
    THEN Returned(tmp[path].text, <<"docx">>)
    ELSE Raised(<<"docx">>)

\* utf-8, then latin-1, which decodes every byte string.
extract_text_from_txt(path) ==
    IF path \notin DOMAIN tmp THEN Raised(<<"txt">>)
    ELSE IF tmp[path].format = "txt" THEN Returned(tmp[path].text, <<"txt">>)
    ELSE Returned(BinaryAsText, <<"txt">>)

fallback_extract_text(path) ==
    LET ext0 == FileExtension(path)
        file_extension == IF ext0 = <<>> THEN detect_file_type(path) ELSE ext0
    IN IF file_extension = <<"pdf">> THEN extract_text_from_pdf(path)
       ELSE IF file_extension = <<"docx">> THEN extract_text_from_docx(path)
       ELSE IF file_extension = <<"txt">> THEN extract_text_from_txt(path)
       ELSE LET pdf == extract_text_from_pdf(path)
                txt == extract_text_from_txt(path)
            IN IF ~pdf.raised THEN pdf
               ELSE IF ~txt.raised THEN Returned(txt.text, pdf.extractors \o txt.extractors)
               ELSE Raised(pdf.extractors \o txt.extractors)

\* partition is the call into the unstructured library: it returns the elements
\* ("ok"), is not installed ("ImportError") or fails ("Exception").
PartitionOutcomes == {"ok", "ImportError", "Exception"}

extract_text_from_document(path, partition) ==
    IF partition = "ok" /\ path \in DOMAIN tmp
    THEN Returned(clean_text(tmp[path].text), <<>>)
    ELSE fallback_extract_text(path)

(***************************************************************************)
(* chunking.py                                                             *)
(*                                                                         *)
(* The splitters are library calls.  A splitter cuts the token sequence in *)
(* windows of at most chunk_size tokens, each starting chunk_size minus    *)
(* chunk_overlap tokens after the previous one.  The result of chunk_text  *)
(* is [raised, chunks, params]: params are the keyword arguments the       *)
(* strategy ran with, after Python bound the options and the defaults.     *)
(***************************************************************************)
RECURSIVE Windows(_, _, _, _)
Windows(ids, start, chunk_size, chunk_overlap) ==
    IF start > Len(ids) THEN <<>>
    ELSE LET cur == Min(start + chunk_size - 1, Len(ids))
         IN <<SubSeq(ids, start, cur)>> \o
            (IF cur = Len(ids) THEN <<>>
             ELSE Windows(ids, start + chunk_size - chunk_overlap, chunk_size, chunk_overlap))

split_text(text, chunk_size, chunk_overlap) == Windows(text, 1, chunk_size, chunk_overlap)

\* Labels of the hierarchical chunks, as tokens.
DOCUMENT_LABEL == <<100>>

ELLIPSIS == <<99>>

SECTION_LABEL(i) == <<200 + i>>

PARAGRAPH_LABEL(i) == <<300 + i>>

SENTENCE_LABEL(i) == <<400 + i>>

\* **options against the signature: an unknown keyword is a TypeError, a missing one
\* takes the default of the signature.
Bind(options, defaults) ==
    [k \in DOMAIN defaults |-> IF k \in DOMAIN options THEN options[k] ELSE defaults[k]]

fixed_size_defaults == [chunk_size |-> 512]

semantic_defaults == [min_chunk_size |-> 100, max_chunk_size |-> 1000]

sliding_window_defaults == [chunk_size |-> 512, overlap |-> 128]

hierarchical_defaults == [levels |-> <<"document", "paragraph">>]

fixed_size_chunking(text, kw) == split_text(text, kw.chunk_size, 0)

semantic_chunking(text, kw) == split_text(text, kw.max_chunk_size, 0)

sliding_window_chunking(text, kw) == split_text(text, kw.chunk_size, kw.overlap)

Labelled(level, pieces) ==
    [i \in 1..Len(pieces) |->
        (CASE level = "section" -> SECTION_LABEL(i)
           [] level = "paragraph" -> PARAGRAPH_LABEL(i)
           [] level = "sentence" -> SENTENCE_LABEL(i)) \o pieces[i]]

hierarchical_chunking(text, kw) ==
    LET levels == Range(kw.levels)
    IN (IF "document" \in levels
        THEN << DOCUMENT_LABEL \o SubSeq(text, 1, Min(1000, Len(text))) \o ELLIPSIS >>
        ELSE <<>>)
       \o (IF "section" \in levels
           THEN Labelled("section", split_text(text, 2000, 200)) ELSE <<>>)
       \o (IF "paragraph" \in levels
           THEN Labelled("paragraph", split_text(text, 500, 50)) ELSE <<>>)
       \o (IF "sentence" \in levels
           THEN Labelled("sentence", split_text(text, 100, 0)) ELSE <<>>)

StrategyDefaults ==
    [fixed_size |-> fixed_size_defaults,
     semantic |-> semantic_defaults,
     sliding_window |-> sliding_window_defaults,
     hierarchical |-> hierarchical_defaults]

ChunkRaised == [raised |-> TRUE, chunks |-> <<>>, params |-> <<>>]

chunk_text(text, strategy, options) ==
    LET opts == IF options = None THEN <<>> ELSE options
        name == strategy[1]
    IN IF Len(strategy) # 1 \/ name \notin DOMAIN StrategyDefaults
       THEN ChunkRaised                                   \* ValueError
       ELSE IF ~(DOMAIN opts \subseteq DOMAIN StrategyDefaults[name])
       THEN ChunkRaised                                   \* TypeError
       ELSE LET kw == Bind(opts, StrategyDefaults[name])
            IN [raised |-> FALSE,
                params |-> kw,
                chunks |-> CASE name = "fixed_size" -> fixed_size_chunking(text, kw)
                             [] name = "semantic" -> semantic_chunking(text, kw)
                             [] name = "sliding_window" -> sliding_window_chunking(text, kw)
                             [] name = "hierarchical" -> hierarchical_chunking(text, kw)]

(***************************************************************************)
(* embeddings.py                                                           *)
(*                                                                         *)
(* One call of the embedding API has an outcome: "values" (a response with *)
(* a vector), "empty" (no usable response) or "raise".  The operators take *)
(* the outcomes of the calls they make as an argument, one per text, and   *)
(* return what they return together with the API calls they made.          *)
(***************************************************************************)
ApiOutcomes == {"values", "empty", "raise"}

VALID_TASK_TYPES ==
    {"RETRIEVAL_QUERY", "RETRIEVAL_DOCUMENT", "SEMANTIC_SIMILARITY", "CLASSIFICATION",
     "CLUSTERING", "QUESTION_ANSWERING", "FACT_VERIFICATION", "CODE_RETRIEVAL_QUERY"}

DEFAULT_DIMENSIONS == 768

\* EmbeddingGenerator.__init__
EmbeddingGenerator(model_name, dimensions) ==
    [model_name |-> model_name, dimensions |-> dimensions]

\* A number standing for the content of a text, never zero.
RECURSIVE Code(_)
Code(text) == IF text = <<>> THEN 1 ELSE ((Code(Tail(text)) * 7 + Head(text)) % 9973) + 1

\* A vector is kept as [length, component]: the list of `length` floats, each equal
\* to `component`.  The embedding model answers with output_dimensionality floats
\* that depend on the text and the task type.
ModelValues(text, task_type, dimensions) ==
    [length |-> dimensions,
     component |-> Code(text) + (IF task_type = "RETRIEVAL_DOCUMENT" THEN 0 ELSE 1)]

\* [0.0] * dimensions
ZeroVector(dimensions) == [length |-> dimensions, component |-> 0]

EffectiveTaskType(task_type) ==
    IF Len(task_type) = 1 /\ task_type[1] \in VALID_TASK_TYPES
    THEN task_type[1]
    ELSE "RETRIEVAL_DOCUMENT"

\* generate_embedding without the except block: an API error propagates.
generate_embedding_Reraise(self, text, task_type, outcome) ==
    [raised |-> outcome = "raise",
     api_calls |-> <<[text |-> text, task_type |-> EffectiveTaskType(task_type),
                      output_dimensionality |-> self.dimensions, outcome |-> outcome]>>,
     value |-> IF outcome = "values"
               THEN ModelValues(text, EffectiveTaskType(task_type), self.dimensions)
               ELSE ZeroVector(self.dimensions)]

\* EmbeddingGenerator.generate_embedding: the try block returns the values of a
\* usable response and a zero vector otherwise; the except block returns a zero
\* vector.  The API is called once.
generate_embedding(self, text, task_type, outcome) ==
    LET tt == EffectiveTaskType(task_type)
        call == [text |-> text, task_type |-> tt, output_dimensionality |-> self.dimensions,
                 outcome |-> outcome]
    IN IF outcome = "raise"
       THEN [raised |-> FALSE, api_calls |-> <<call>>, value |-> ZeroVector(self.dimensions)]
       ELSE IF outcome = "values"
       THEN [raised |-> FALSE, api_calls |-> <<call>>,
             value |-> ModelValues(text, tt, self.dimensions)]
       ELSE [raised |-> FALSE, api_calls |-> <<call>>, value |-> ZeroVector(self.dimensions)]

RECURSIVE BatchLoop(_, _, _, _, _)
BatchLoop(texts, generator, task_type, outcomes, acc) ==
    IF texts = <<>> \/ acc.raised THEN acc
    ELSE LET e == generate_embedding(generator, Head(texts), task_type, Head(outcomes))
         IN BatchLoop(Tail(texts), generator, task_type, Tail(outcomes),
                      [raised |-> e.raised,
                       api_calls |-> acc.api_calls \o e.api_calls,
                       embeddings |-> IF e.raised THEN acc.embeddings
                                      ELSE Append(acc.embeddings, e.value)])

_generate_batch_embeddings(texts, generator, task_type, outcomes) ==
    BatchLoop(texts, generator, task_type, outcomes,
              [raised |-> FALSE, api_calls |-> <<>>, embeddings |-> <<>>])

batch_size == 5

\* The slice one element short: chunks[i : i + batch_size - 1].
Slice_Short(chunks, i, n) == SubSeq(chunks, i + 1, Min(i + n - 1, Len(chunks)))

\* chunks[i : i + batch_size], i counted from 0
Slice(chunks, i, n) == SubSeq(chunks, i + 1, Min(i + n, Len(chunks)))

RECURSIVE EmbedLoop(_, _, _, _, _, _)
EmbedLoop(chunks, generator, task_type, outcomes, i, acc) ==
    IF i >= Len(chunks) \/ acc.raised THEN acc
    ELSE LET batch == Slice(chunks, i, batch_size)
             b == _generate_batch_embeddings(batch, generator, task_type,
                                             Slice(outcomes, i, batch_size))
             kept == SelectSeq([j \in 1..Len(b.embeddings) |-> j],
                               LAMBDA j : i + j - 1 < Len(chunks))
         IN EmbedLoop(chunks, generator, task_type, outcomes, i + batch_size,
                      [raised |-> b.raised,
                       api_calls |-> acc.api_calls \o b.api_calls,
                       batches |-> Append(acc.batches, batch),
                       results |-> IF b.raised THEN acc.results
                                   ELSE acc.results \o
                                        [k \in 1..Len(kept) |->
                                            <<chunks[i + kept[k]], b.embeddings[kept[k]]>>]])

\* generate_embeddings: outcomes[k] is the outcome of the API call for chunks[k].
generate_embeddings(chunks, task_type, outcomes) ==
    EmbedLoop(chunks, EmbeddingGenerator("text-multilingual-embedding-002", DEFAULT_DIMENSIONS),
              task_type, outcomes, 0,
              [raised |-> FALSE, api_calls |-> <<>>, batches |-> <<>>, results |-> <<>>])

(***************************************************************************)
(* database.py                                                             *)
(***************************************************************************)
\* index_id.split("/")[-1].replace("-index", "")
SectorName(index_id) == index_id[Len(index_id)][1]

UpsertOutcomes == {"ok", "index_raise", "upsert_raise"}

\* store_embeddings_in_vector_search with the error of the upsert logged and dropped.
store_embeddings_in_vector_search_Swallow(chunk_embeddings, index_id, first, outcome) ==
    LET n == Len(chunk_embeddings)
        vector_ids == [k \in 1..n |-> uuid4(first + k)]
        datapoints == [k \in 1..n |-> [datapoint_id |-> vector_ids[k],
                                       feature_vector |-> chunk_embeddings[k][2]]]
    IN IF outcome = "index_raise"
       THEN [raised |-> TRUE, index |-> SectorName(index_id), upserted |-> <<>>,
             vector_ids |-> <<>>, drawn |-> 0]
       ELSE [raised |-> FALSE, index |-> SectorName(index_id),
             upserted |-> IF outcome = "upsert_raise" THEN <<>> ELSE datapoints,
             vector_ids |-> vector_ids, drawn |-> n]

\* store_embeddings_in_vector_search.  The index is looked up by display name and,
\* failing that, opened by index_id ("index_raise": opening it raised).  One uuid4 is
\* drawn per (chunk, embedding) pair, first + 1 being the first value drawn.
store_embeddings_in_vector_search(chunk_embeddings, index_id, first, outcome) ==
    LET n == Len(chunk_embeddings)
        vector_ids == [k \in 1..n |-> uuid4(first + k)]
        datapoints == [k \in 1..n |-> [datapoint_id |-> vector_ids[k],
                                       feature_vector |-> chunk_embeddings[k][2]]]
    IN IF outcome = "index_raise"
       THEN [raised |-> TRUE, index |-> SectorName(index_id), upserted |-> <<>>,
             vector_ids |-> <<>>, drawn |-> 0]
       ELSE IF outcome = "upsert_raise"
       THEN [raised |-> TRUE, index |-> SectorName(index_id), upserted |-> <<>>,
             vector_ids |-> <<>>, drawn |-> n]
       ELSE [raised |-> FALSE, index |-> SectorName(index_id), upserted |-> datapoints,
             vector_ids |-> vector_ids, drawn |-> n]

FIRESTORE_BATCH_LIMIT == 500

ChunkPath(sector, document_id, vector_id) ==
    <<"sectors", sector, "documents", document_id, "chunks", vector_id>>

DocumentPath(sector, document_id) == <<"sectors", sector, "documents", document_id>>

\* The write with chunk_index counted from 1.
ChunkWrite_IndexFromOne(document_id, sector, chunk, vector_id, i) ==
    [ref |-> ChunkPath(sector, document_id, vector_id),
     text |-> chunk,
     vector_id |-> vector_id,
     document_id |-> document_id,
     sector |-> sector,
     chunk_index |-> i + 1]

\* One queued batch.set(chunk_ref, {...}); created_at, the server's timestamp, is left out.
ChunkWrite(document_id, sector, chunk, vector_id, i) ==
    [ref |-> ChunkPath(sector, document_id, vector_id),
     text |-> chunk,
     vector_id |-> vector_id,
     document_id |-> document_id,
     sector |-> sector,
     chunk_index |-> i]

\* The loop over enumerate(zip(chunks, vector_ids)), i counted from 0, taken from
\* iteration i up to the next one at which (i + 1) % 500 = 0, or to the end of the
\* shorter list.  st.batch is the open batch, st.commits the batches committed so
\* far; the commit numbered fail_commit raises.
RECURSIVE StoreLoop(_, _, _, _, _, _, _)
StoreLoop(document_id, sector, chunks, vector_ids, fail_commit, i, st) ==
    IF i >= Min(Len(chunks), Len(vector_ids)) \/ st.raised THEN st
    ELSE LET stop == Min(Min(Len(chunks), Len(vector_ids)),
                         (i \div FIRESTORE_BATCH_LIMIT + 1) * FIRESTORE_BATCH_LIMIT)
             queued == [k \in 1..(stop - i) |->
                           ChunkWrite(document_id, sector, chunks[i + k], vector_ids[i + k],
                                      i + k - 1)]
             batch == st.batch \o queued
             refs == st.chunk_refs \o [k \in 1..(stop - i) |-> queued[k].ref]
         IN StoreLoop(document_id, sector, chunks, vector_ids, fail_commit, stop,
                IF stop % FIRESTORE_BATCH_LIMIT = 0
                THEN IF Len(st.commits) + 1 = fail_commit
                     THEN [st EXCEPT !.raised = TRUE, !.batch = batch, !.chunk_refs = refs]
                     ELSE [st EXCEPT !.commits = Append(@, batch), !.batch = <<>>,
                                     !.chunk_refs = refs]
                ELSE [st EXCEPT !.batch = batch, !.chunk_refs = refs])

\* store_chunks_in_firestore.  fail_at = 0: nothing raises; 1: document_ref.set
\* raises; k + 1: the k-th batch.commit raises.  The result holds the document record
\* set, the batches committed in order, and the chunk_refs returned.
store_chunks_in_firestore(document_id, sector, chunks, vector_ids, metadata, fail_at) ==
    LET doc == [document_id |-> document_id, sector |-> sector,
                chunk_count |-> Len(chunks), metadata |-> metadata]
        st0 == [raised |-> FALSE, batch |-> <<>>, commits |-> <<>>, chunk_refs |-> <<>>]
        st == StoreLoop(document_id, sector, chunks, vector_ids, fail_at - 1, 0, st0)
    IN IF fail_at = 1
       THEN [raised |-> TRUE, document |-> <<>>, commits |-> <<>>, chunk_refs |-> <<>>]
       ELSE IF st.raised
       THEN [raised |-> TRUE, document |-> <<doc>>, commits |-> st.commits,
             chunk_refs |-> st.chunk_refs]
       ELSE IF Len(chunks) % FIRESTORE_BATCH_LIMIT # 0
       THEN IF Len(st.commits) + 1 = fail_at - 1
            THEN [raised |-> TRUE, document |-> <<doc>>, commits |-> st.commits,
                  chunk_refs |-> st.chunk_refs]
            ELSE [raised |-> FALSE, document |-> <<doc>>,
                  commits |-> Append(st.commits, st.batch), chunk_refs |-> st.chunk_refs]
       ELSE [raised |-> FALSE, document |-> <<doc>>, commits |-> st.commits,
             chunk_refs |-> st.chunk_refs]

\* The chunk documents after the batches of writes are committed in order: a write
\* to a path replaces what the path held.
ApplyWrites(docs, writes) ==
    LET refs == {writes[k].ref : k \in 1..Len(writes)}
        last == {k \in 1..Len(writes) :
                    \A j \in (k + 1)..Len(writes) : writes[j].ref # writes[k].ref}
    IN {d \in docs : d.ref \notin refs} \cup {writes[k] : k \in last}

RECURSIVE ApplyCommits(_, _)
ApplyCommits(docs, commits) ==
    IF commits = <<>> THEN docs
    ELSE ApplyCommits(ApplyWrites(docs, Head(commits)), Tail(commits))

(***************************************************************************)
(* main.py: process_document                                               *)
(***************************************************************************)
\* Substrings an error message is searched for; a message is the set it contains.
Messages ==
    { {}, {"403"}, {"404"}, {"Not Found"}, {"billing account", "disabled"},
      {"storage.googleapis.com", "403"},
      {"disabled"}, {"storage.googleapis.com"},
      {"billing account", "disabled", "404"},
      {"storage.googleapis.com", "403", "Not Found"},
      {"billing account", "disabled", "storage.googleapis.com", "403"} }

\* The messages tried for an error of the vector index or of Firestore.
ServiceMessages == { {}, {"403"}, {"Not Found"}, {"billing account", "disabled"} }

CorsHeaders == [Access_Control_Allow_Origin |-> "*"]

PreflightHeaders ==
    [Access_Control_Allow_Origin |-> "*",
     Access_Control_Allow_Methods |-> "POST",
     Access_Control_Allow_Headers |-> "Content-Type",
     Access_Control_Max_Age |-> "3600"]

NoResponse ==
    [status |-> 0, headers |-> <<>>, json |-> FALSE, success |-> FALSE, error |-> "",
     document_id |-> None, sector |-> None, chunk_count |-> 0, vector_ids |-> <<>>,
     embedding_task_type |-> None, details |-> <<>>]

Preflight == [NoResponse EXCEPT !.status = 204, !.headers = PreflightHeaders]

\* An error response sent without the CORS header.
ErrorResponse_NoCors(status, error) ==
    [NoResponse EXCEPT !.status = status, !.json = TRUE, !.error = error]

ErrorResponse(status, error) ==
    [NoResponse EXCEPT !.status = status, !.headers = CorsHeaders, !.json = TRUE,
                       !.error = error]

\* "details": error_message in the body of a response.
WithDetails(resp, error_message) == [resp EXCEPT !.details = <<error_message>>]

\* The except block with the test for "404" made first.
GeneralHandler_NotFoundFirst(error_message) ==
    WithDetails(
        IF "404" \in error_message \/ "Not Found" \in error_message
        THEN ErrorResponse(404, "File not found in storage bucket")
        ELSE IF "billing account" \in error_message /\ "disabled" \in error_message
        THEN ErrorResponse(403, "billing account is disabled")
        ELSE IF "storage.googleapis.com" \in error_message /\ "403" \in error_message
        THEN ErrorResponse(403, "Access denied to Google Cloud Storage bucket")
        ELSE ErrorResponse(500, "An error occurred while processing the document"),
        error_message)

\* The except block of process_document: the status chosen from the message.
GeneralHandler(error_message) ==
    WithDetails(
        IF "billing account" \in error_message /\ "disabled" \in error_message
        THEN ErrorResponse(403, "billing account is disabled")
        ELSE IF "storage.googleapis.com" \in error_message /\ "403" \in error_message
        THEN ErrorResponse(403, "Access denied to Google Cloud Storage bucket")
        ELSE IF "404" \in error_message \/ "Not Found" \in error_message
        THEN ErrorResponse(404, "File not found in storage bucket")
        ELSE ErrorResponse(500, "An error occurred while processing the document"),
        error_message)

\* The download handler with the test for "404" made first.
DownloadHandler_NotFoundFirst(error_message) ==
    IF "404" \in error_message \/ "Not Found" \in error_message
    THEN WithDetails(ErrorResponse(404, "File not found"), error_message)
    ELSE IF "403" \in error_message
    THEN WithDetails(ErrorResponse(403, "Access denied to bucket"), error_message)
    ELSE GeneralHandler(error_message)

\* The except block around blob.download_to_filename.
DownloadHandler(error_message) ==
    IF "403" \in error_message
    THEN WithDetails(ErrorResponse(403, "Access denied to bucket"), error_message)
    ELSE IF "404" \in error_message \/ "Not Found" \in error_message
    THEN WithDetails(ErrorResponse(404, "File not found"), error_message)
    ELSE GeneralHandler(error_message)

\* The checks made before any work is done: the response they end with, or
\* NoResponse when the request passes.
Validation(req) ==
    IF req.method = "OPTIONS" THEN Preflight
    ELSE IF req.json = None THEN ErrorResponse(400, "No JSON data provided")
    ELSE IF Falsy(Get(req.json, "document_id", None))
            \/ Falsy(Get(req.json, "blob_path", None))
            \/ Falsy(Get(req.json, "sector", None))
            \/ Falsy(Get(req.json, "processing_strategy", None))
    THEN ErrorResponse(400, "Missing required parameters")
    ELSE IF Unhashable(Get(req.json, "sector", None))       \* "in" raises TypeError
    THEN GeneralHandler({"unhashable type"})
    ELSE IF Get(req.json, "sector", None) \notin DOMAIN SECTOR_INDEX_MAPPING
    THEN ErrorResponse(400, "Invalid sector")
    ELSE NoResponse

\* The steps with the Firestore write ahead of the vector upsert.
StepOrder_StoreBeforeUpsert == <<"download", "extract", "chunk", "embed", "firestore", "upsert">>

\* The external steps of a request that passes validation, in program order.
StepOrder == <<"download", "extract", "chunk", "embed", "upsert", "firestore">>

\* Where process_document continues after a step has returned.
NextPc(step) ==
    LET i == CHOOSE k \in 1..Len(StepOrder) : StepOrder[k] = step
    IN IF i < Len(StepOrder) THEN StepOrder[i + 1] ELSE "return"

NoLocals ==
    [text |-> <<>>, extractors |-> <<>>, chunks |-> <<>>, params |-> <<>>,
     chunk_embeddings |-> <<>>, api_calls |-> <<>>, vector_ids |-> <<>>,
     upserted |-> <<>>, firestore_refs |-> <<>>, commits |-> <<>>]

document_id(r) == Get(request[r].json, "document_id", None)

blob_path(r) == Get(request[r].json, "blob_path", None)

sector(r) == Get(request[r].json, "sector", None)

processing_strategy(r) == Get(request[r].json, "processing_strategy", None)

processing_options(r) == Get(request[r].json, "processing_options", <<>>)

embedding_task_type(r) == Get(request[r].json, "embedding_task_type", <<"RETRIEVAL_DOCUMENT">>)

\* f"/tmp/{document_id}": files of /tmp are named by the document id.
temp_file_path(r) == document_id(r)

Respond(r, resp) ==
    /\ response' = [response EXCEPT ![r] = resp]
    /\ pc' = [pc EXCEPT ![r] = "done"]

Started(r, step) == calls' = [calls EXCEPT ![r] = Append(@, step)]

Continue(r, step) ==
    /\ pc' = [pc EXCEPT ![r] = NextPc(step)]
    /\ UNCHANGED response

Validate(r) ==
    /\ pc[r] = "start"
    /\ IF Validation(request[r]) # NoResponse
       THEN Respond(r, Validation(request[r]))
       ELSE /\ pc' = [pc EXCEPT ![r] = StepOrder[1]]
            /\ UNCHANGED response
    /\ UNCHANGED <<env, bucket, tmp, vector_index, fs_documents, fs_chunks, uuid_counter,
                   request, local, calls, ui, posts, probe>>

\* 1. blob.download_to_filename(temp_file_path)
Download(r) ==
    /\ pc[r] = "download"
    /\ Started(r, "download")
    /\ LET object_name == parse_gcs_uri(blob_path(r))[2]
       IN \/ /\ object_name \in DOMAIN bucket
             /\ tmp' = [p \in DOMAIN tmp \cup {temp_file_path(r)} |->
                           IF p = temp_file_path(r) THEN bucket[object_name] ELSE tmp[p]]
             /\ Continue(r, "download")
          \/ /\ \E error_message \in Messages : Respond(r, DownloadHandler(error_message))
             /\ UNCHANGED tmp
    /\ UNCHANGED <<env, bucket, vector_index, fs_documents, fs_chunks, uuid_counter,
                   request, local, ui, posts, probe>>

\* Step 2 without its own except block: the error goes to the general handler.
Extract_NoInnerHandler(r) ==
    /\ pc[r] = "extract"
    /\ Started(r, "extract")
    /\ \E partition \in PartitionOutcomes :
          LET res == extract_text_from_document(temp_file_path(r), partition)
          IN IF res.raised
             THEN /\ \E error_message \in Messages : Respond(r, GeneralHandler(error_message))
                  /\ local' = [local EXCEPT ![r].extractors = res.extractors]
             ELSE /\ local' = [local EXCEPT ![r].text = res.text,
                                            ![r].extractors = res.extractors]
                  /\ Continue(r, "extract")
    /\ UNCHANGED <<env, bucket, tmp, vector_index, fs_documents, fs_chunks, uuid_counter,
                   request, ui, posts, probe>>

\* 2. extract_text_from_document(temp_file_path)
Extract(r) ==
    /\ pc[r] = "extract"
    /\ Started(r, "extract")
    /\ \E partition \in PartitionOutcomes :
          LET res == extract_text_from_document(temp_file_path(r), partition)
          IN IF res.raised
             THEN /\ \E error_message \in Messages :
                        Respond(r, WithDetails(
                            ErrorResponse(400, "Failed to extract text from the document"),
                            error_message))
                  /\ local' = [local EXCEPT ![r].extractors = res.extractors]
             ELSE /\ local' = [local EXCEPT ![r].text = res.text,
                                            ![r].extractors = res.extractors]
                  /\ Continue(r, "extract")
    /\ UNCHANGED <<env, bucket, tmp, vector_index, fs_documents, fs_chunks, uuid_counter,
                   request, ui, posts, probe>>

\* 3. chunk_text(text, processing_strategy, processing_options)
Chunk(r) ==
    /\ pc[r] = "chunk"
    /\ Started(r, "chunk")
    /\ LET res == chunk_text(local[r].text, processing_strategy(r), processing_options(r))
       IN IF res.raised
          THEN /\ Respond(r, GeneralHandler({}))
               /\ UNCHANGED local
          ELSE /\ local' = [local EXCEPT ![r].chunks = res.chunks, ![r].params = res.params]
               /\ Continue(r, "chunk")
    /\ UNCHANGED <<env, bucket, tmp, vector_index, fs_documents, fs_chunks, uuid_counter,
                   request, ui, posts, probe>>

\* 4. generate_embeddings(chunks, embedding_task_type); EmbeddingGenerator() loads the
\* model and may raise before any text is embedded.
Embed(r) ==
    /\ pc[r] = "embed"
    /\ Started(r, "embed")
    /\ \/ /\ \E error_message \in Messages : Respond(r, GeneralHandler(error_message))
          /\ UNCHANGED local
       \/ \E outcomes \in [1..Len(local[r].chunks) -> ApiOutcomes] :
             LET res == generate_embeddings(local[r].chunks, embedding_task_type(r), outcomes)
             IN IF res.raised
                THEN /\ Respond(r, GeneralHandler({}))
                     /\ local' = [local EXCEPT ![r].api_calls = res.api_calls]
                ELSE /\ local' = [local EXCEPT ![r].chunk_embeddings = res.results,
                                               ![r].api_calls = res.api_calls]
                     /\ Continue(r, "embed")
    /\ UNCHANGED <<env, bucket, tmp, vector_index, fs_documents, fs_chunks, uuid_counter,
                   request, ui, posts, probe>>

\* 5. store_embeddings_in_vector_search(chunk_embeddings, SECTOR_INDEX_MAPPING[sector])
Upsert(r) ==
    /\ pc[r] = "upsert"
    /\ Started(r, "upsert")
    /\ \E outcome \in UpsertOutcomes, error_message \in ServiceMessages :
          LET res == store_embeddings_in_vector_search(
                         local[r].chunk_embeddings, SECTOR_INDEX_MAPPING[sector(r)],
                         uuid_counter, outcome)
          IN /\ uuid_counter' = uuid_counter + res.drawn
             /\ vector_index' = [vector_index EXCEPT ![res.index] = @ \cup Range(res.upserted)]
             /\ IF res.raised
                THEN /\ Respond(r, GeneralHandler(error_message))
                     /\ UNCHANGED local
                ELSE /\ local' = [local EXCEPT ![r].vector_ids = res.vector_ids,
                                               ![r].upserted = res.upserted]
                     /\ Continue(r, "upsert")
    /\ UNCHANGED <<env, bucket, tmp, fs_documents, fs_chunks, request, ui, posts, probe>>

Metadata(r) ==
    [original_blob_path |-> blob_path(r),
     processing_strategy |-> processing_strategy(r),
     processing_options |-> processing_options(r),
     embedding_task_type |-> embedding_task_type(r)]

\* 6. store_chunks_in_firestore(document_id, sector, chunks, vector_ids, metadata)
Firestore(r) ==
    /\ pc[r] = "firestore"
    /\ Started(r, "firestore")
    /\ \E fail_at \in 0..(Len(local[r].chunks) \div FIRESTORE_BATCH_LIMIT + 2),
          error_message \in ServiceMessages :
          LET res == store_chunks_in_firestore(document_id(r), sector(r), local[r].chunks,
                                               local[r].vector_ids, Metadata(r), fail_at)
              path == DocumentPath(sector(r), document_id(r))
          IN /\ fs_documents' =
                    IF res.document = <<>> THEN fs_documents
                    ELSE [q \in DOMAIN fs_documents \cup {path} |->
                             IF q = path THEN res.document[1] ELSE fs_documents[q]]
             /\ fs_chunks' = ApplyCommits(fs_chunks, res.commits)
             /\ local' = [local EXCEPT ![r].firestore_refs = res.chunk_refs,
                                       ![r].commits = res.commits]
             /\ IF res.raised
                THEN Respond(r, GeneralHandler(error_message))
                ELSE Continue(r, "firestore")
    /\ UNCHANGED <<env, bucket, tmp, vector_index, uuid_counter, request, ui, posts, probe>>

\* The success response.
Return(r) ==
    /\ pc[r] = "return"
    /\ Respond(r, [status |-> 200, headers |-> CorsHeaders, json |-> TRUE, success |-> TRUE,
                   error |-> "", document_id |-> document_id(r), sector |-> sector(r),
                   chunk_count |-> Len(local[r].chunks),
                   vector_ids |-> local[r].vector_ids,
                   embedding_task_type |-> embedding_task_type(r), details |-> <<>>])
    /\ UNCHANGED <<env, bucket, tmp, vector_index, fs_documents, fs_chunks, uuid_counter,
                   request, local, calls, ui, posts, probe>>

process_document(r) ==
    \/ Validate(r)
    \/ Download(r)
    \/ Extract(r)
    \/ Chunk(r)
    \/ Embed(r)
    \/ Upsert(r)
    \/ Firestore(r)
    \/ Return(r)

(***************************************************************************)
(* The requests, the stored objects and the specification of the endpoint. *)
(***************************************************************************)
\* A text of n tokens in which every third token is whitespace.
SampleText(n) == [i \in 1..n |-> IF i % 3 = 0 THEN 0 ELSE 1 + (i % 2)]

PdfFile == [format |-> "pdf", header |-> "%PDF-", text |-> SampleText(MaxTextLen)]

TxtFile == [format |-> "txt", header |-> "other", text |-> <<1, 0, 0, 2>>]

DocxFile == [format |-> "docx", header |-> "PK", text |-> <<>>]

InitialBucket ==
    (<<"hr", "doc1", "a.pdf">> :> PdfFile)
    @@ (<<"hr", "doc1", "b.txt">> :> TxtFile)
    @@ (<<"c.docx">> :> DocxFile)

Body(d, b, s, st) ==
    [document_id |-> d, blob_path |-> b, sector |-> s, processing_strategy |-> st]

\* Bodies that differ in which required fields are missing (None), empty or usable.
ValidationBodies ==
    { Body(d, b, s, st) :
        d \in {None, EmptyStr, <<"doc1">>},
        b \in {None, EmptyStr, <<"hr", "doc1", "a.pdf">>},
        s \in {None, EmptyStr, <<"hr">>, <<"bogus">>, JsonArray(<<"hr">>)},
        st \in {None, EmptyStr, <<"fixed_size">>} }

BlobPaths ==
    { <<"hr", "doc1", "a.pdf">>,
      <<"gs:", "", "some-bucket", "hr", "doc1", "b.txt">>,
      <<"c.docx">>,
      <<"hr", "missing">> }

\* A strategy with the processing_options sent along; <<FALSE, ...>>: none sent.
StrategyOptions ==
    { <<"fixed_size", FALSE, <<>> >>,
      <<"fixed_size", TRUE, [chunk_size |-> 1]>>,
      <<"fixed_size", TRUE, [chunk_size |-> 2]>>,
      <<"fixed_size", TRUE, [chunk_size |-> 2, overlap |-> 1]>>,
      <<"semantic", FALSE, <<>> >>,
      <<"semantic", TRUE, [min_chunk_size |-> 1, max_chunk_size |-> 2]>>,
      <<"sliding_window", FALSE, <<>> >>,
      <<"sliding_window", TRUE, [chunk_size |-> 2, overlap |-> 1]>>,
      <<"hierarchical", FALSE, <<>> >>,
      <<"hierarchical", TRUE, [levels |-> <<"document", "section", "paragraph", "sentence">>]>>,
      <<"hierarchical", TRUE, [levels |-> <<>>]>>,
      <<"bogus", FALSE, <<>> >> }

WithOptions(body, so) ==
    IF so[2] THEN body @@ ("processing_options" :> so[3]) ELSE body

ProcessingBodies ==
    { WithOptions(Body(d, b, <<"hr">>, <<so[1]>>), so) :
        d \in {<<"doc1">>, <<"doc2", "txt">>}, b \in BlobPaths, so \in StrategyOptions }
    \cup
    { Body(<<"doc1">>, <<"hr", "doc1", "a.pdf">>, s, <<"fixed_size">>)
        @@ ("processing_options" :> [chunk_size |-> 2])
        @@ ("embedding_task_type" :> t) :
        s \in {<<"hr">>, <<"accounting">>},
        t \in {<<"CLUSTERING">>, <<"BOGUS">>, None} }

Requests ==
    { [method |-> "OPTIONS", json |-> None], [method |-> "POST", json |-> None] }
    \cup { [method |-> "POST", json |-> b] : b \in ValidationBodies \cup ProcessingBodies }

\* One request is served.
Reqs == {"r1"}

Idle == [pc |-> "idle"]

Init ==
    /\ env \in Environments
    /\ bucket = InitialBucket
    /\ tmp = <<>>
    /\ vector_index = [s \in Range(SECTORS) |-> {}]
    /\ fs_documents = <<>>
    /\ fs_chunks = {}
    /\ uuid_counter = 0
    /\ request \in [Reqs -> Requests]
    /\ pc = [r \in Reqs |-> "start"]
    /\ local = [r \in Reqs |-> NoLocals]
    /\ response = [r \in Reqs |-> NoResponse]
    /\ calls = [r \in Reqs |-> <<>>]
    /\ ui = Idle
    /\ posts = <<>>
    /\ probe = <<>>

Next == \E r \in DOMAIN request : process_document(r)

Spec == Init /\ [][Next]_vars

(***************************************************************************)
(* Functions called on their own.  probe holds the arguments of the call   *)
(* and, once the call is made, its result.                                 *)
(***************************************************************************)
NoRequests ==
    /\ request = <<>>
    /\ pc = <<>>
    /\ local = <<>>
    /\ response = <<>>
    /\ calls = <<>>

EmptyStores ==
    /\ vector_index = [s \in Range(SECTORS) |-> {}]
    /\ fs_documents = <<>>
    /\ fs_chunks = {}
    /\ uuid_counter = 0

\* ---- embeddings.py ----
\* A list of n chunks; texts repeat within the list.
SampleChunks(n) == [i \in 1..n |-> <<1 + (i % 3)>>]

Dimensions == {1, 2, DEFAULT_DIMENSIONS}

InitEmbed ==
    /\ env = <<>>
    /\ bucket = <<>>
    /\ tmp = <<>>
    /\ EmptyStores
    /\ NoRequests
    /\ ui = Idle
    /\ posts = <<>>
    /\ \/ \E n \in 0..MaxEmbedChunks :
             probe = [fn |-> "generate_embeddings", chunks |-> SampleChunks(n),
                      task_type |-> <<"CLUSTERING">>, done |-> FALSE, result |-> <<>>]
       \/ \E d \in Dimensions, t \in {<<"RETRIEVAL_DOCUMENT">>, <<"BOGUS">>, None},
             text \in {<<>>, <<1>>, <<2, 0, 1>>} :
             probe = [fn |-> "generate_embedding", self |-> EmbeddingGenerator("m", d),
                      text |-> text, task_type |-> t, done |-> FALSE, result |-> <<>>]

CallGenerateEmbeddings ==
    /\ probe.fn = "generate_embeddings" /\ ~probe.done
    /\ \E outcomes \in [1..Len(probe.chunks) -> ApiOutcomes] :
          probe' = [probe EXCEPT !.done = TRUE,
                                 !.result = generate_embeddings(probe.chunks, probe.task_type,
                                                                outcomes)]
    /\ UNCHANGED <<env, bucket, tmp, vector_index, fs_documents, fs_chunks, uuid_counter,
                   request, pc, local, response, calls, ui, posts>>

CallGenerateEmbedding ==
    /\ probe.fn = "generate_embedding" /\ ~probe.done
    /\ \E outcome \in ApiOutcomes :
          probe' = [probe EXCEPT !.done = TRUE,
                                 !.result = generate_embedding(probe.self, probe.text,
                                                               probe.task_type, outcome)]
    /\ UNCHANGED <<env, bucket, tmp, vector_index, fs_documents, fs_chunks, uuid_counter,
                   request, pc, local, response, calls, ui, posts>>

NextEmbed == CallGenerateEmbeddings \/ CallGenerateEmbedding

SpecEmbed == InitEmbed /\ [][NextEmbed]_vars

\* ---- database.py ----
\* List lengths around the multiples of the batch limit.
StoreLengths ==
    {n \in 0..(2 * FIRESTORE_BATCH_LIMIT + MaxExtra) :
        \E k \in 0..2 : n - k * FIRESTORE_BATCH_LIMIT \in (0 - MaxExtra)..MaxExtra}

InitStore ==
    /\ env = <<>>
    /\ bucket = <<>>
    /\ tmp = <<>>
    /\ EmptyStores
    /\ NoRequests
    /\ ui = Idle
    /\ posts = <<>>
    /\ \E n \in StoreLengths, m \in StoreLengths :
          probe = [fn |-> "store_chunks_in_firestore",
                   document_id |-> <<"doc1">>, sector |-> <<"hr">>,
                   chunks |-> [i \in 1..n |-> <<i % 2>>],
                   vector_ids |-> [i \in 1..m |-> uuid4(i)],
                   done |-> FALSE, result |-> <<>>]

CallStoreChunks ==
    /\ probe.fn = "store_chunks_in_firestore" /\ ~probe.done
    /\ \E fail_at \in 0..(Len(probe.chunks) \div FIRESTORE_BATCH_LIMIT + 2) :
          LET res == store_chunks_in_firestore(probe.document_id, probe.sector, probe.chunks,
                                               probe.vector_ids, <<>>, fail_at)
              path == DocumentPath(probe.sector, probe.document_id)
          IN /\ probe' = [probe EXCEPT !.done = TRUE, !.result = res]
             /\ fs_documents' = IF res.document = <<>> THEN fs_documents
                                ELSE (path :> res.document[1])
             /\ fs_chunks' = ApplyCommits(fs_chunks, res.commits)
    /\ UNCHANGED <<env, bucket, tmp, vector_index, uuid_counter,
                   request, pc, local, response, calls, ui, posts>>

NextStore == CallStoreChunks

SpecStore == InitStore /\ [][NextStore]_vars

\* ---- text_processing.py ----
OtherFile == [format |-> "other", header |-> "PK", text |-> <<1>>]

ExtractFiles ==
    { PdfFile, TxtFile, DocxFile, OtherFile,
      [format |-> "txt", header |-> "%PDF-", text |-> <<2, 1>>],
      [format |-> "other", header |-> "other", text |-> <<>>] }

ExtractPaths ==
    { <<"doc1">>, <<"doc2", "txt">>, <<"doc3", "pdf">>, <<"doc4", "DOCX">>,
      <<"doc5", "xyz">>, <<"", "txt">>, <<"doc6", "">> }

InitExtract ==
    /\ env = <<>>
    /\ bucket = <<>>
    /\ EmptyStores
    /\ NoRequests
    /\ ui = Idle
    /\ posts = <<>>
    /\ \E path \in ExtractPaths, file \in ExtractFiles :
          /\ tmp = (path :> file)
          /\ probe = [fn |-> "extract_text_from_document", file_path |-> path,
                      done |-> FALSE, partition |-> "", result |-> <<>>]

CallExtract ==
    /\ probe.fn = "extract_text_from_document" /\ ~probe.done
    /\ \E partition \in PartitionOutcomes :
          probe' = [probe EXCEPT !.done = TRUE, !.partition = partition,
                                 !.result = extract_text_from_document(probe.file_path,
                                                                       partition)]
    /\ UNCHANGED <<env, bucket, tmp, vector_index, fs_documents, fs_chunks, uuid_counter,
                   request, pc, local, response, calls, ui, posts>>

NextExtract == CallExtract

SpecExtract == InitExtract /\ [][NextExtract]_vars

\* ---- main.py: parse_gcs_uri ----
\* The configurations the UI and the function share.
SharedEnvironments == { <<>>, [SECTORS |-> <<"finance", "ops">>, BUCKET_NAME |-> "docs"] }

PathComponents == {"hr", "finance", "some-bucket", "docs", "a.pdf", ""}

\* "gs://" + path
WithGs(path) == <<"gs:", "">> \o path

\* Paths of one to three components, bare, with gs:// in front, and with it twice.
ParsePaths ==
    LET bare == UNION { [1..n -> PathComponents] : n \in 1..3 }
    IN bare \cup {WithGs(q) : q \in bare}
            \cup {WithGs(WithGs(q)) : q \in [1..2 -> {"hr", "some-bucket"}]}

InitParse ==
    /\ env \in SharedEnvironments
    /\ bucket = <<>>
    /\ tmp = <<>>
    /\ EmptyStores
    /\ NoRequests
    /\ ui = Idle
    /\ posts = <<>>
    /\ \E path \in ParsePaths :
          probe = [fn |-> "parse_gcs_uri", blob_path |-> path, done |-> FALSE, result |-> <<>>]

CallParse ==
    /\ probe.fn = "parse_gcs_uri" /\ ~probe.done
    /\ probe' = [probe EXCEPT !.done = TRUE, !.result = parse_gcs_uri(probe.blob_path)]
    /\ UNCHANGED <<env, bucket, tmp, vector_index, fs_documents, fs_chunks, uuid_counter,
                   request, pc, local, response, calls, ui, posts>>

NextParse == CallParse

SpecParse == InitParse /\ [][NextParse]_vars

(***************************************************************************)
(* streamlit_app/app.py                                                    *)
(*                                                                         *)
(* ui holds the widget values of the session and the position of the       *)
(* script run started by the Process button; ui.log lists what that code   *)
(* did, in order.  The endpoint is outside this specification: the POST    *)
(* answers with success, with an error, or raises.                         *)
(***************************************************************************)
\* Widget settings tried: sector, strategy, the options its sliders give, task type.
Selections ==
    { [sector |-> <<SECTORS[1]>>, processing_strategy |-> <<"fixed_size">>,
       processing_options |-> [chunk_size |-> 512],
       embedding_task_type |-> <<"RETRIEVAL_DOCUMENT">>],
      [sector |-> <<SECTORS[2]>>, processing_strategy |-> <<"sliding_window">>,
       processing_options |-> [chunk_size |-> 100, overlap |-> 10],
       embedding_task_type |-> <<"CLUSTERING">>],
      [sector |-> <<SECTORS[2]>>, processing_strategy |-> <<"hierarchical">>,
       processing_options |-> [levels |-> <<"document", "paragraph">>],
       embedding_task_type |-> <<"RETRIEVAL_DOCUMENT">>] }

UploadedFiles == { [name |-> "a.pdf", content |-> PdfFile], [name |-> "b.txt", content |-> TxtFile] }

\* upload_to_gcs: the document id drawn and the blob path f"{sector}/{document_id}/{file.name}"
upload_to_gcs(file, sector_name, n) ==
    [document_id |-> <<uuid4(n)>>, blob_path |-> sector_name \o <<uuid4(n), file.name>>]

\* The payload with the file's path taken for the document id.
trigger_processing_Swapped(doc_id, path, sector_name, strategy, options, task_type) ==
    [document_id |-> path,
     blob_path |-> doc_id,
     sector |-> sector_name,
     processing_strategy |-> strategy,
     processing_options |-> options,
     embedding_task_type |-> task_type]

\* The payload trigger_processing posts.
trigger_processing(doc_id, path, sector_name, strategy, options, task_type) ==
    [document_id |-> doc_id,
     blob_path |-> path,
     sector |-> sector_name,
     processing_strategy |-> strategy,
     processing_options |-> options,
     embedding_task_type |-> task_type]

Event(kind) ==
    [event |-> kind, press |-> ui.presses, selection |-> ui.selection,
     document_id |-> ui.document_id, blob_path |-> ui.blob_path, payload |-> <<>>]

InitUI ==
    /\ env = <<>>
    /\ bucket = <<>>
    /\ tmp = <<>>
    /\ EmptyStores
    /\ NoRequests
    /\ posts = <<>>
    /\ probe = <<>>
    /\ \E sel \in Selections :
          ui = [pc |-> "idle", selection |-> sel, uploaded_file |-> None, presses |-> 0,
                document_id |-> None, blob_path |-> None, result |-> "", log |-> <<>>]

\* The user changes the sidebar widgets.
Select ==
    /\ ui.pc = "idle"
    /\ \E sel \in Selections : ui' = [ui EXCEPT !.selection = sel]
    /\ UNCHANGED <<env, bucket, tmp, vector_index, fs_documents, fs_chunks, uuid_counter,
                   request, pc, local, response, calls, posts, probe>>

\* st.file_uploader
ChooseFile ==
    /\ ui.pc = "idle"
    /\ \E f \in UploadedFiles : ui' = [ui EXCEPT !.uploaded_file = <<f>>]
    /\ UNCHANGED <<env, bucket, tmp, vector_index, fs_documents, fs_chunks, uuid_counter,
                   request, pc, local, response, calls, posts, probe>>

\* st.button("Process Document") is pressed
PressProcess ==
    /\ ui.pc = "idle"
    /\ ui.uploaded_file # None
    /\ ui.presses < MaxPresses
    /\ ui' = [ui EXCEPT !.pc = "uploading", !.presses = @ + 1,
                        !.document_id = None, !.blob_path = None, !.result = "",
                        !.log = Append(@, [Event("press") EXCEPT !.press = ui.presses + 1,
                                                                 !.document_id = None,
                                                                 !.blob_path = None])]
    /\ UNCHANGED <<env, bucket, tmp, vector_index, fs_documents, fs_chunks, uuid_counter,
                   request, pc, local, response, calls, posts, probe>>

\* document_id, blob_path = upload_to_gcs(uploaded_file, sector); an exception ends
\* the script run.
UploadToGcs ==
    /\ ui.pc = "uploading"
    /\ uuid_counter' = uuid_counter + 1
    /\ LET up == upload_to_gcs(ui.uploaded_file[1], ui.selection.sector, uuid_counter + 1)
       IN \/ /\ bucket' = [o \in DOMAIN bucket \cup {up.blob_path} |->
                              IF o = up.blob_path THEN ui.uploaded_file[1].content
                              ELSE bucket[o]]
             /\ ui' = [ui EXCEPT !.pc = "processing",
                                 !.document_id = up.document_id,
                                 !.blob_path = up.blob_path,
                                 !.log = Append(@, [Event("upload_returned") EXCEPT
                                                       !.document_id = up.document_id,
                                                       !.blob_path = up.blob_path])]
          \/ /\ UNCHANGED bucket
             /\ ui' = [ui EXCEPT !.pc = "idle", !.result = "exception",
                                 !.log = Append(@, Event("upload_raised"))]
    /\ UNCHANGED <<env, tmp, vector_index, fs_documents, fs_chunks,
                   request, pc, local, response, calls, posts, probe>>

\* result = trigger_processing(...): requests.post(CLOUD_FUNCTION_URL, json=payload)
TriggerProcessing ==
    /\ ui.pc = "processing"
    /\ LET payload == trigger_processing(ui.document_id, ui.blob_path, ui.selection.sector,
                                         ui.selection.processing_strategy,
                                         ui.selection.processing_options,
                                         ui.selection.embedding_task_type)
       IN /\ posts' = Append(posts, payload)
          /\ \E result \in {"success", "error", "exception"} :
                ui' = [ui EXCEPT !.pc = "idle", !.result = result,
                                 !.log = Append(@, [Event("post") EXCEPT !.payload = payload])]
    /\ UNCHANGED <<env, bucket, tmp, vector_index, fs_documents, fs_chunks, uuid_counter,
                   request, pc, local, response, calls, probe>>

NextUI == Select \/ ChooseFile \/ PressProcess \/ UploadToGcs \/ TriggerProcessing

SpecUI == InitUI /\ [][NextUI]_vars

(***************************************************************************)
(* Two requests to the same instance of the function, which share /tmp,    *)
(* the vector index and Firestore: served one after the other (SpecSeq)    *)
(* and at the same time (SpecConc).                                        *)
(***************************************************************************)
Reqs2 == {"r1", "r2"}

\* The first request, and the second: for the same document id or for another one,
\* and for another object.
FirstBody == Body(<<"doc1">>, <<"hr", "doc1", "a.pdf">>, <<"hr">>, <<"fixed_size">>)

SecondBodies ==
    { Body(d, <<"hr", "doc1", "b.txt">>, <<"hr">>, <<"hierarchical">>) :
        d \in {<<"doc1">>, <<"doc2">>} }

InitPair ==
    /\ env = <<>>
    /\ bucket = InitialBucket
    /\ tmp = <<>>
    /\ EmptyStores
    /\ \E b \in SecondBodies :
          request = [r \in Reqs2 |-> [method |-> "POST",
                                      json |-> IF r = "r1" THEN FirstBody ELSE b]]
    /\ pc = [r \in Reqs2 |-> "start"]
    /\ local = [r \in Reqs2 |-> NoLocals]
    /\ response = [r \in Reqs2 |-> NoResponse]
    /\ calls = [r \in Reqs2 |-> <<>>]
    /\ ui = Idle
    /\ posts = <<>>
    /\ probe = <<>>

\* The requests that are answered before r is taken up.
Before(r) == IF r = "r2" THEN {"r1"} ELSE {}

NextSeq ==
    \E r \in DOMAIN request :
        /\ \A q \in Before(r) : pc[q] = "done"
        /\ process_document(r)

SpecSeq == InitPair /\ [][NextSeq]_vars

NextConc == \E r \in DOMAIN request : process_document(r)

SpecConc == InitPair /\ [][NextConc]_vars

(***************************************************************************)
(* The upload UI and the endpoint together: the POST of trigger_processing *)
(* is a request process_document serves, and the UI waits for the answer.  *)
(* The press of one session is followed through the endpoint.              *)
(***************************************************************************)
\* The configurations the UI and the function share.
InitRoundTrip ==
    /\ env \in SharedEnvironments
    /\ bucket = <<>>
    /\ tmp = <<>>
    /\ EmptyStores
    /\ NoRequests
    /\ posts = <<>>
    /\ probe = <<>>
    /\ \E sel \in Selections :
          ui = [pc |-> "idle", selection |-> sel, uploaded_file |-> None, presses |-> 0,
                document_id |-> None, blob_path |-> None, result |-> "", log |-> <<>>]

PressOnce == ui.presses = 0 /\ PressProcess

\* requests.post(CLOUD_FUNCTION_URL, json=payload): the endpoint receives the request.
PostRequest ==
    /\ ui.pc = "processing"
    /\ LET payload == trigger_processing(ui.document_id, ui.blob_path, ui.selection.sector,
                                         ui.selection.processing_strategy,
                                         ui.selection.processing_options,
                                         ui.selection.embedding_task_type)
       IN /\ posts' = Append(posts, payload)
          /\ request' = ("r1" :> [method |-> "POST", json |-> payload])
          /\ ui' = [ui EXCEPT !.pc = "waiting",
                              !.log = Append(@, [Event("post") EXCEPT !.payload = payload])]
    /\ pc' = ("r1" :> "start")
    /\ local' = ("r1" :> NoLocals)
    /\ response' = ("r1" :> NoResponse)
    /\ calls' = ("r1" :> <<>>)
    /\ UNCHANGED <<env, bucket, tmp, vector_index, fs_documents, fs_chunks, uuid_counter, probe>>

\* return response.json(), then result.get("success")
ReceiveResponse ==
    /\ ui.pc = "waiting"
    /\ \E r \in DOMAIN request :
          /\ pc[r] = "done"
          /\ ui' = [ui EXCEPT !.pc = "idle",
                              !.result = IF response[r].success THEN "success" ELSE "error"]
    /\ UNCHANGED <<env, bucket, tmp, vector_index, fs_documents, fs_chunks, uuid_counter,
                   request, pc, local, response, calls, posts, probe>>

NextRoundTrip ==
    \/ Select
    \/ ChooseFile
    \/ PressOnce
    \/ UploadToGcs
    \/ PostRequest
    \/ ReceiveResponse
    \/ \E r \in DOMAIN request : process_document(r)

SpecRoundTrip == InitRoundTrip /\ [][NextRoundTrip]_vars

(***************************************************************************)
(* Properties.                                                             *)
(***************************************************************************)
\* The embedding obtained by one API call: the model's vector when the call
\* returned values, the zero vector of the requested length otherwise.
ObtainedEmbedding(call) ==
    IF call.outcome = "values"
    THEN ModelValues(call.text, call.task_type, call.output_dimensionality)
    ELSE [length |-> call.output_dimensionality, component |-> 0]

Succeeded(r) == pc[r] = "done" /\ response[r].status = 200

\* C1: a request answered with status 200 started each external step exactly once,
\* in the order download, extract, chunk, embed, upsert, Firestore write; a request
\* still in progress has started exactly the steps that precede its position.
C1_StepsOnceInOrder ==
    \A r \in DOMAIN request :
        LET order == <<"download", "extract", "chunk", "embed", "upsert", "firestore">>
        IN /\ response[r].status = 200 => calls[r] = order
           /\ \A k \in 1..Len(order) : pc[r] = order[k] => calls[r] = SubSeq(order, 1, k - 1)

C1_Witness ==
    \E r \in DOMAIN request :
        Succeeded(r) /\ Len(local[r].chunks) > batch_size /\ fs_chunks # {}

\* C2: a status-200 response has success = true, chunk_count equal to the number of
\* chunks chunk_text returns for the request's text, strategy and options, and
\* vector_ids with one id per chunk, pairwise distinct, each the id of a datapoint
\* upserted into the sector's index.
C2_ResponseCounts ==
    \A r \in DOMAIN request :
        response[r].status = 200 =>
            LET resp == response[r]
                chunked == chunk_text(local[r].text, processing_strategy(r),
                                      processing_options(r))
                stored == vector_index[sector(r)[1]]
            IN /\ resp.success /\ resp.json
               /\ ~chunked.raised
               /\ resp.chunk_count = Len(chunked.chunks)
               /\ Len(resp.vector_ids) = resp.chunk_count
               /\ \A i, j \in 1..Len(resp.vector_ids) :
                      i # j => resp.vector_ids[i] # resp.vector_ids[j]
               /\ \A i \in 1..Len(resp.vector_ids) :
                      \E dp \in stored : dp.datapoint_id = resp.vector_ids[i]

C2_Witness ==
    \E r \in DOMAIN request :
        /\ Succeeded(r)
        /\ response[r].chunk_count >= 3
        /\ \E i, j \in 1..Len(local[r].chunks) : i # j /\ local[r].chunks[i] = local[r].chunks[j]

\* C3: after a successful request, chunk i is stored under
\* sectors/{sector}/documents/{document_id}/chunks with chunk_index i, record id and
\* vector_id equal to vector_ids[i], and vector_ids[i] is the datapoint whose vector
\* is the embedding obtained for chunk i; the chunk records are exactly these, each
\* carries the document id, and no two share a vector id.
C3_ChunkRecords ==
    \A r \in DOMAIN request :
        Succeeded(r) =>
            LET ids == response[r].vector_ids
                chunks == local[r].chunks
                record(i) == [ref |-> <<"sectors", sector(r), "documents", document_id(r),
                                        "chunks", ids[i]>>,
                              text |-> chunks[i],
                              vector_id |-> ids[i],
                              document_id |-> document_id(r),
                              sector |-> sector(r),
                              chunk_index |-> i - 1]
            IN /\ Len(ids) = Len(chunks)
               /\ Len(local[r].api_calls) = Len(chunks)
               /\ fs_chunks = {record(i) : i \in 1..Len(chunks)}
               /\ Cardinality({rec.vector_id : rec \in fs_chunks}) = Len(chunks)
               /\ Cardinality(fs_chunks) = Len(chunks)
               /\ \A i \in 1..Len(chunks) :
                      /\ local[r].api_calls[i].text = chunks[i]
                      /\ [datapoint_id |-> ids[i],
                          feature_vector |-> ObtainedEmbedding(local[r].api_calls[i])]
                            \in vector_index[sector(r)[1]]

C3_Witness ==
    \E r \in DOMAIN request :
        /\ Succeeded(r)
        /\ Len(local[r].chunks) >= 2
        /\ \E i, j \in 1..Len(local[r].api_calls) :
              /\ local[r].api_calls[i].outcome = "raise"
              /\ local[r].api_calls[j].outcome = "values"

\* C4: generate_embedding never raises; it calls the embedding API exactly once, for
\* its text, and returns a zero vector of length self.dimensions when that call
\* raises or returns nothing usable; so generate_embeddings does not raise because of
\* a failed call and makes exactly one API call per chunk.
C4_NeverRaises ==
    /\ (probe.fn = "generate_embedding" /\ probe.done) =>
           /\ ~probe.result.raised
           /\ Len(probe.result.api_calls) = 1
           /\ probe.result.api_calls[1].text = probe.text
           /\ probe.result.api_calls[1].output_dimensionality = probe.self.dimensions
           /\ probe.result.api_calls[1].outcome \in {"raise", "empty"} =>
                  probe.result.value = [length |-> probe.self.dimensions, component |-> 0]
    /\ (probe.fn = "generate_embeddings" /\ probe.done) =>
           /\ ~probe.result.raised
           /\ Len(probe.result.api_calls) = Len(probe.chunks)

C4_Witness ==
    /\ probe.fn = "generate_embedding" /\ probe.done
    /\ probe.self.dimensions = 2
    /\ probe.result.api_calls[1].outcome = "raise"

\* C5: generate_embeddings returns one pair per chunk, the i-th being chunks[i] with
\* the embedding obtained for chunks[i], whatever the length of the list and whichever
\* calls fail; the chunks go through ceil(len / 5) consecutive batches of at most 5,
\* each chunk in exactly one batch.
C5_PairsAndBatches ==
    (probe.fn = "generate_embeddings" /\ probe.done) =>
        LET res == probe.result
            chunks == probe.chunks
            n == Len(chunks)
        IN /\ ~res.raised
           /\ Len(res.results) = n
           /\ Len(res.api_calls) = n
           /\ \A i \in 1..n :
                  /\ res.api_calls[i].text = chunks[i]
                  /\ res.results[i] = <<chunks[i], ObtainedEmbedding(res.api_calls[i])>>
           /\ Len(res.batches) = (n + 4) \div 5
           /\ \A b \in 1..Len(res.batches) :
                  /\ Len(res.batches[b]) = Min(5, n - (b - 1) * 5)
                  /\ Len(res.batches[b]) >= 1
                  /\ \A j \in 1..Len(res.batches[b]) : res.batches[b][j] = chunks[(b - 1) * 5 + j]

C5_Witness ==
    /\ probe.fn = "generate_embeddings" /\ probe.done
    /\ Len(probe.chunks) > 5 /\ Len(probe.chunks) % 5 # 0
    /\ \E i, j \in 1..Len(probe.chunks) :
          /\ probe.result.api_calls[i].outcome = "raise"
          /\ probe.result.api_calls[j].outcome = "values"
          /\ probe.result.results[i][2].component = 0
          /\ probe.result.results[j][2].component # 0

RECURSIVE TotalLen(_)
TotalLen(seqs) == IF seqs = <<>> THEN 0 ELSE Len(Head(seqs)) + TotalLen(Tail(seqs))

\* C6: whatever lists chunks and vector_ids store_chunks_in_firestore is given, when
\* it returns no committed batch has more than 500 writes, none is empty, and every
\* write it queued (every path in chunk_refs) has been committed exactly once.
C6_AllQueuedWritesCommitted ==
    (probe.fn = "store_chunks_in_firestore" /\ probe.done /\ ~probe.result.raised) =>
        LET res == probe.result
        IN /\ \A c \in 1..Len(res.commits) :
                  Len(res.commits[c]) >= 1 /\ Len(res.commits[c]) <= 500
           /\ TotalLen(res.commits) = Len(res.chunk_refs)
           /\ \A c \in 1..Len(res.commits) : \A k \in 1..Len(res.commits[c]) :
                  res.commits[c][k].ref
                      = res.chunk_refs[TotalLen(SubSeq(res.commits, 1, c - 1)) + k]
           /\ {res.chunk_refs[i] : i \in 1..Len(res.chunk_refs)}
                  \subseteq {rec.ref : rec \in fs_chunks}

\* The same for lists of equal length, the only ones process_document passes.
C6_EqualLengthsCommitted ==
    Len(probe.chunks) = Len(probe.vector_ids) => C6_AllQueuedWritesCommitted

\* What C7 calls an invalid request.
C7_Invalid(req) ==
    \/ req.json = None
    \/ \E key \in {"document_id", "blob_path", "sector", "processing_strategy"} :
          key \notin DOMAIN req.json \/ req.json[key] \in {None, EmptyStr}
    \/ req.json.sector \notin {<<SECTORS[i]>> : i \in 1..Len(SECTORS)}

C7_NothingExternal(r) ==
    /\ calls[r] = <<>>
    /\ local[r] = NoLocals
    /\ tmp = <<>>
    /\ uuid_counter = 0
    /\ fs_documents = <<>>
    /\ fs_chunks = {}
    /\ \A s \in DOMAIN vector_index : vector_index[s] = {}

C7_Rejected(r) ==
    /\ pc[r] \in {"start", "done"}
    /\ pc[r] = "done" =>
           response[r].status = 400 /\ response[r].json /\ ~response[r].success
    /\ C7_NothingExternal(r)

\* C7 as stated: every request with no JSON body, a missing or empty required field
\* or an unknown sector is answered 400 with success = false, and nothing external
\* happens for it.
C7_EveryInvalidRequestRejected ==
    \A r \in DOMAIN request : C7_Invalid(request[r]) => C7_Rejected(r)

\* The requests for which the rejection does hold: those that are not an OPTIONS
\* preflight and whose sector, when the four fields are present, is not a JSON array.
C7_InvalidRequestRejected ==
    \A r \in DOMAIN request :
        (/\ request[r].method # "OPTIONS"
         /\ C7_Invalid(request[r])
         /\ Validation(request[r]).status # 500)
        => C7_Rejected(r)

\* A request whose sector is a JSON array is answered 500, and nothing external
\* happens for it.
C7_UnhashableSector ==
    \A r \in DOMAIN request :
        (/\ pc[r] = "done"
         /\ request[r].method # "OPTIONS"
         /\ request[r].json # None
         /\ ~Falsy(document_id(r)) /\ ~Falsy(blob_path(r)) /\ ~Falsy(processing_strategy(r))
         /\ Unhashable(sector(r)))
        => response[r].status = 500 /\ ~response[r].success /\ C7_NothingExternal(r)

C7_Witness ==
    \E r \in DOMAIN request :
        /\ pc[r] = "done"
        /\ request[r].json # None
        /\ request[r].json.sector = <<"bogus">>
        /\ request[r].json.document_id = <<"doc1">>
        /\ request[r].json.blob_path # None /\ request[r].json.blob_path # EmptyStr
        /\ request[r].json.processing_strategy = <<"fixed_size">>
        /\ response[r].status = 400

\* C8: a request that sends no processing_options is chunked with the parameters
\* DEFAULT_PROCESSING_OPTIONS holds for its strategy, as the environment sets them.
C8_DefaultsFromEnvironment ==
    \A r \in DOMAIN request :
        (/\ request[r].json # None
         /\ "processing_options" \notin DOMAIN request[r].json
         /\ "chunk" \in Range(calls[r])
         /\ pc[r] \in {"embed", "upsert", "firestore", "return"} \/ Succeeded(r))
        => local[r].params = DEFAULT_PROCESSING_OPTIONS[processing_strategy(r)[1]]

\* C9: when the parsing library fails or is missing, the file is read by the
\* extractor of its own format, first and only: PDF, DOCX or TXT.
C9_FallbackMatchesFormat ==
    (/\ probe.fn = "extract_text_from_document" /\ probe.done
     /\ probe.partition # "ok"
     /\ tmp[probe.file_path].format \in {"pdf", "docx", "txt"})
    => probe.result.extractors = <<tmp[probe.file_path].format>>

\* C10: every POST to the endpoint directly follows the return of the upload made
\* for the same press of Process, carries the document id and blob path that upload
\* returned (the object now in the bucket) and the widget values selected when it is
\* sent, which are those of the press; an upload that returned is followed by exactly
\* one POST, one that raised by none.
C10_UploadThenInvokeOnce ==
    LET log == ui.log
        post_events == SelectSeq(log, LAMBDA e : e.event = "post")
    IN /\ \A k \in 1..Len(log) :
              log[k].event = "post" =>
                  /\ k >= 3
                  /\ log[k - 1].event = "upload_returned" /\ log[k - 1].press = log[k].press
                  /\ log[k - 2].event = "press" /\ log[k - 2].press = log[k].press
                  /\ log[k].payload.document_id = log[k - 1].document_id
                  /\ log[k].payload.blob_path = log[k - 1].blob_path
                  /\ log[k].payload.blob_path \in DOMAIN bucket
                  /\ log[k].selection = log[k - 2].selection
                  /\ log[k].payload.sector = log[k].selection.sector
                  /\ log[k].payload.processing_strategy
                         = log[k].selection.processing_strategy
                  /\ log[k].payload.processing_options
                         = log[k].selection.processing_options
                  /\ log[k].payload.embedding_task_type
                         = log[k].selection.embedding_task_type
       /\ \A k \in 1..Len(log) :
              /\ log[k].event = "upload_returned" =>
                     IF k < Len(log) THEN log[k + 1].event = "post" ELSE ui.pc = "processing"
              /\ log[k].event = "upload_raised" =>
                     k = Len(log) \/ log[k + 1].event = "press"
              /\ log[k].event = "post" => k = Len(log) \/ log[k + 1].event = "press"
       /\ posts = [k \in 1..Len(post_events) |-> post_events[k].payload]

C10_Witness ==
    /\ ui.pc = "idle"
    /\ Len(posts) = 1
    /\ \E k \in 1..Len(ui.log) : ui.log[k].event = "upload_raised"
    /\ ui.log[Len(ui.log)].event = "post"

\* C11: the blob path the UI posts is {sector}/{document_id}/{file name} with a
\* configured sector, parse_gcs_uri maps it to the configured bucket and to itself,
\* and the file a request has downloaded is the file the UI uploaded under that path.
C11_RoundTrip ==
    \A r \in DOMAIN request :
        LET path == blob_path(r)
        IN /\ Len(path) = 3
           /\ <<path[1]>> = sector(r) /\ path[1] \in Range(SECTORS)
           /\ <<path[2]>> = document_id(r)
           /\ parse_gcs_uri(path) = <<BUCKET_NAME, path>>
           /\ path \in DOMAIN bucket
           /\ \E f \in UploadedFiles : path[3] = f.name /\ bucket[path] = f.content
           /\ "extract" \in Range(calls[r]) \/ pc[r] = "extract" =>
                  /\ temp_file_path(r) \in DOMAIN tmp
                  /\ tmp[temp_file_path(r)] = bucket[path]

C11_Witness ==
    \E r \in DOMAIN request :
        /\ Succeeded(r)
        /\ env # <<>>
        /\ blob_path(r)[1] = "ops"
        /\ tmp[temp_file_path(r)] = TxtFile
        /\ ui.result = "success"

C13_UpsertBeforeFirestore ==
    /\ \A r \in DOMAIN request :
           /\ (pc[r] = "done" /\ calls[r] # <<>> /\ calls[r][Len(calls[r])] = "upsert") =>
                  /\ response[r].status \notin {0, 200}
                  /\ ~response[r].success
                  /\ "firestore" \notin Range(calls[r])
                  /\ local[r].firestore_refs = <<>> /\ local[r].commits = <<>>
           /\ ("firestore" \in Range(calls[r]) \/ pc[r] = "firestore") =>
                  /\ Len(local[r].vector_ids) = Len(local[r].chunks)
                  /\ Len(local[r].upserted) = Len(local[r].chunks)
                  /\ \A k \in 1..Len(local[r].chunks) :
                         /\ local[r].upserted[k].datapoint_id = local[r].vector_ids[k]
                         /\ local[r].upserted[k] \in vector_index[sector(r)[1]]
    /\ (fs_documents # <<>> \/ fs_chunks # {}) =>
           \E r \in DOMAIN request : "firestore" \in Range(calls[r])

C13_Witness ==
    \E r \in DOMAIN request :
        /\ pc[r] = "done"
        /\ calls[r] = <<"download", "extract", "chunk", "embed", "upsert">>
        /\ Len(local[r].chunk_embeddings) >= 2
        /\ uuid_counter >= 2
        /\ response[r].status = 500
        /\ fs_documents = <<>>

\* The chunk records stored under a document record.
ChunksUnder(doc) ==
    {c \in fs_chunks : c.document_id = doc.document_id /\ c.sector = doc.sector}

\* C14: when every request made so far has been answered 200, each document record's
\* chunk_count is the number of chunk records under the document, and their
\* chunk_index values are 0..chunk_count-1, each once.
C14_ChunkCountMatches ==
    (\A r \in DOMAIN request : pc[r] = "start" \/ Succeeded(r)) =>
        \A path \in DOMAIN fs_documents :
            LET doc == fs_documents[path]
            IN /\ Cardinality(ChunksUnder(doc)) = doc.chunk_count
               /\ {c.chunk_index : c \in ChunksUnder(doc)} = 0..(doc.chunk_count - 1)

\* The same for requests with different document ids.
C14_DistinctDocuments ==
    (\A r, q \in DOMAIN request : r # q => document_id(r) # document_id(q))
        => C14_ChunkCountMatches

\* The stored object a request asks for.
OwnBlob(r) == bucket[parse_gcs_uri(blob_path(r))[2]]

\* C19: with requests in flight at the same time, the temp file a request is about
\* to extract from holds the blob this request downloaded, and the text it extracted
\* is the text of that blob.
C19_OwnTempFile ==
    \A r \in DOMAIN request :
        /\ pc[r] = "extract" => tmp[temp_file_path(r)] = OwnBlob(r)
        /\ (pc[r] \in {"chunk", "embed", "upsert", "firestore", "return"} \/ Succeeded(r)) =>
               local[r].text \in {OwnBlob(r).text, clean_text(OwnBlob(r).text)}

\* The same for requests with different document ids.
C19_DistinctDocuments ==
    (\A r, q \in DOMAIN request : r # q => document_id(r) # document_id(q))
        => C19_OwnTempFile

\* The request ended at the step named, which raised.
FailedAt(r, step) ==
    pc[r] = "done" /\ calls[r] # <<>> /\ calls[r][Len(calls[r])] = step
        /\ response[r].status # 200

\* Nothing was chunked, embedded, upserted or written for the one request served.
NothingAfterExtraction(r) ==
    /\ local[r].chunks = <<>> /\ local[r].api_calls = <<>>
    /\ local[r].chunk_embeddings = <<>> /\ local[r].vector_ids = <<>>
    /\ {"chunk", "embed", "upsert", "firestore"} \cap Range(calls[r]) = {}
    /\ uuid_counter = 0
    /\ fs_documents = <<>> /\ fs_chunks = {}
    /\ \A x \in DOMAIN vector_index : vector_index[x] = {}

\* C15: when the download raises, a message with "403" is answered 403, otherwise one
\* with "404" or "Not Found" is answered 404, otherwise the general handler answers;
\* the response has success = false and no later step runs for the request.
C15_DownloadErrors ==
    \A r \in DOMAIN request :
        FailedAt(r, "download") =>
            LET resp == response[r]
                m == resp.details[1]
            IN /\ Len(resp.details) = 1
               /\ resp.json /\ ~resp.success
               /\ IF "403" \in m
                  THEN resp.status = 403 /\ resp.error = "Access denied to bucket"
                  ELSE IF "404" \in m \/ "Not Found" \in m
                  THEN resp.status = 404 /\ resp.error = "File not found"
                  ELSE resp = GeneralHandler(m)
               /\ calls[r] = <<"download">>
               /\ local[r] = NoLocals
               /\ NothingAfterExtraction(r)

C15_Witness ==
    \E r \in DOMAIN request :
        /\ FailedAt(r, "download")
        /\ response[r].details = << {"storage.googleapis.com", "403", "Not Found"} >>
        /\ response[r].status = 403
        /\ parse_gcs_uri(blob_path(r))[2] \in DOMAIN bucket

\* C16: when extract_text_from_document raises, the answer is 400 with success = false
\* and the error "Failed to extract text from the document", whatever the message of
\* the exception, and no chunking, embedding, upsert or Firestore write happens.
C16_ExtractionError ==
    \A r \in DOMAIN request :
        FailedAt(r, "extract") =>
            /\ response[r].status = 400
            /\ response[r].json /\ ~response[r].success
            /\ response[r].error = "Failed to extract text from the document"
            /\ calls[r] = <<"download", "extract">>
            /\ local[r].text = <<>>
            /\ NothingAfterExtraction(r)

C16_Witness ==
    \E r \in DOMAIN request :
        /\ FailedAt(r, "extract")
        /\ local[r].extractors = <<"pdf">>
        /\ tmp[temp_file_path(r)].format = "txt"
        /\ response[r].details = << {"404"} >>

\* The status the general handler's priority order gives a message.
StatusByMessage(m) ==
    IF "billing account" \in m /\ "disabled" \in m THEN 403
    ELSE IF "storage.googleapis.com" \in m /\ "403" \in m THEN 403
    ELSE IF "404" \in m \/ "Not Found" \in m THEN 404
    ELSE 500

\* The exception was caught by the handler of the download or of the extraction.
CaughtInside(r) ==
    \/ FailedAt(r, "extract")
    \/ /\ FailedAt(r, "download")
       /\ {"403", "404", "Not Found"} \cap response[r].details[1] # {}

\* C17 as stated: every exception raised after the OPTIONS check becomes a JSON
\* response with success = false whose status follows the priority order.
C17_EveryExceptionByPriority ==
    \A r \in DOMAIN request :
        response[r].details # <<>> =>
            /\ response[r].json /\ ~response[r].success
            /\ response[r].status = StatusByMessage(response[r].details[1])

\* C17, amended: every exception becomes a JSON response with success = false, and
\* the status follows the priority order for the exceptions that reach the general
\* handler, which are all but those the download and extraction handlers answer.
C17_GeneralHandlerPriority ==
    \A r \in DOMAIN request :
        /\ pc[r] = "done" => response[r].status \in {200, 204, 400, 403, 404, 500}
        /\ response[r].details # <<>> =>
               /\ pc[r] = "done"
               /\ response[r].json /\ ~response[r].success
               /\ response[r].headers = CorsHeaders
               /\ ~CaughtInside(r) =>
                      /\ response[r].status = StatusByMessage(response[r].details[1])
                      /\ response[r] = GeneralHandler(response[r].details[1])

C17_Witness ==
    \E r \in DOMAIN request :
        /\ FailedAt(r, "embed")
        /\ response[r].details = << {"billing account", "disabled", "404"} >>
        /\ response[r].status = 403

\* C18: the response to a request that is not OPTIONS has the header
\* Access-Control-Allow-Origin "*" and a JSON body with a boolean success, true
\* exactly when the status is 200; a 200 is sent only after the upsert and the
\* Firestore write have both returned, their data stored.
C18_CorsAndSuccess ==
    \A r \in DOMAIN request :
        (pc[r] = "done" /\ request[r].method # "OPTIONS") =>
            LET resp == response[r]
            IN /\ DOMAIN resp.headers = {"Access_Control_Allow_Origin"}
               /\ resp.headers.Access_Control_Allow_Origin = "*"
               /\ resp.json
               /\ resp.success \in BOOLEAN
               /\ resp.success <=> resp.status = 200
               /\ resp.status = 200 =>
                      /\ SubSeq(calls[r], 5, 6) = <<"upsert", "firestore">>
                      /\ resp.details = <<>>
                      /\ Range(local[r].upserted) \subseteq vector_index[sector(r)[1]]
                      /\ Len(local[r].upserted) = Len(local[r].chunks)
                      /\ DocumentPath(sector(r), document_id(r)) \in DOMAIN fs_documents
                      /\ Range(local[r].firestore_refs) \subseteq {c.ref : c \in fs_chunks}

C18_Witness ==
    \E r \in DOMAIN request :
        /\ Succeeded(r)
        /\ request[r].method = "POST"
        /\ Len(local[r].chunks) >= 2
        /\ Len(local[r].upserted) = Len(local[r].chunks)
        /\ fs_chunks # {}
        /\ response[r].headers.Access_Control_Allow_Origin = "*"

====
